---- MODULE Spec2Model ----
(***************************************************************************)
(* Model of the substrate-exchange JSON-RPC shim (src/src/lib.rs,          *)
(* src/src/main.rs): the two RPC handlers account_balance and              *)
(* transfer_balance of RpcImpl, the futures they return, and the chain     *)
(* client (subxt::Client) they call.                                       *)
(*                                                                         *)
(* Calls are the RPC requests of a run.  The synchronous part of a handler *)
(* is one action; every suspension point of the future it returns (the     *)
(* nonce lookup of Client::xt, the acknowledgement of XtBuilder::submit,   *)
(* the storage read of fetch_or_default) is one more action.               *)
(*                                                                         *)
(* Strings that the code parses character by character (the amount) are    *)
(* sequences of one-character strings.  Strings that are handed to the     *)
(* crypto library (SURI keys, SS58 addresses) are opaque TLA+ strings.     *)
(***************************************************************************)
EXTENDS Integers, Sequences, FiniteSets, TLC

\* ------------------------------------------------------------------ bounds
\* Number of RPC requests the server receives over a run; any of them may
\* overlap.
NumCalls == 2
\* Width in bits of the model's Balance type (u128 in the program).
BalanceBits == 7
\* Account nonce of every account in the initial chain state.
StartNonce == 5

Calls == 1..NumCalls

RECURSIVE Pow2(_)
Pow2(n) == IF n = 0 THEN 1 ELSE 2 * Pow2(n - 1)

\* <T as srml_balances::Trait>::Balance::max_value()
MaxBalance == Pow2(BalanceBits) - 1

\* ------------------------------------------------------- key material
Alice == "5GrwvaEF5zXb26Fz9rcQpDWS57CtERHpNehXCPcNoHGKutQY"
Bob == "5FHneW46xGXgs5mUiveU4sbTyGBzmstUspZC92UhjJM694ty"
Accounts == {Alice, Bob}

\* tests::key: the SURI of a keyring account.
key(account) == IF account = Alice THEN "//Alice" ELSE "//Bob"

\* tests::pubkey: the SS58 string of a keyring account.
pubkey(account) == account

\* T::Pair::from_string(&from, None): the pair of a SURI, or an error.
\* A pair is represented by the account it signs for.
PairFromString(s) ==
    IF \E a \in Accounts : key(a) = s
    THEN [ok |-> TRUE, pair |-> CHOOSE a \in Accounts : key(a) = s]
    ELSE [ok |-> FALSE, pair |-> ""]

\* <T::Pair as Pair>::Public::from_string(&s): the public key of an SS58
\* string, or an error.
PublicFromString(s) ==
    IF \E a \in Accounts : pubkey(a) = s
    THEN [ok |-> TRUE, public |-> CHOOSE a \in Accounts : pubkey(a) = s]
    ELSE [ok |-> FALSE, public |-> ""]

\* ------------------------------------------------------- amount codec
DigitChars == <<"0", "1", "2", "3", "4", "5", "6", "7", "8", "9">>

IsDigit(ch) == \E i \in 1..10 : DigitChars[i] = ch

\* char::to_digit(10)
ToDigit(ch) == (CHOOSE i \in 1..10 : DigitChars[i] = ch) - 1

\* The loop of u128::from_str_radix(_, 10): checked_mul(10) then
\* checked_add(digit) for each character, left to right.
RECURSIVE ParseDigits(_, _)
ParseDigits(digits, acc) ==
    IF digits = << >> THEN [ok |-> TRUE, value |-> acc, err |-> ""]
    ELSE IF ~IsDigit(Head(digits))
         THEN [ok |-> FALSE, value |-> 0, err |-> "InvalidDigit"]
    ELSE IF acc * 10 > MaxBalance
         THEN [ok |-> FALSE, value |-> 0, err |-> "Overflow"]
    ELSE IF acc * 10 + ToDigit(Head(digits)) > MaxBalance
         THEN [ok |-> FALSE, value |-> 0, err |-> "Overflow"]
    ELSE ParseDigits(Tail(digits), acc * 10 + ToDigit(Head(digits)))

\* amount.parse::<Balance>(): FromStr of an unsigned integer.  Base 10 only,
\* one optional leading "+", no "-", no prefix, no whitespace.
ParseBalance(s) ==
    IF s = << >> THEN [ok |-> FALSE, value |-> 0, err |-> "Empty"]
    ELSE IF Len(s) = 1 /\ Head(s) \in {"+", "-"}
         THEN [ok |-> FALSE, value |-> 0, err |-> "InvalidDigit"]
    ELSE IF Head(s) = "+" THEN ParseDigits(Tail(s), 0)
    ELSE ParseDigits(s, 0)

\* Mutant of FormatBalance: the balance rendered with format!("{:#x}", _),
\* the "hex encoded balance" of the error message.
HexChars == <<"0", "1", "2", "3", "4", "5", "6", "7", "8", "9",
              "a", "b", "c", "d", "e", "f">>

RECURSIVE HexDigits(_)
HexDigits(v) ==
    IF v < 16 THEN <<HexChars[v + 1]>>
    ELSE HexDigits(v \div 16) \o <<HexChars[(v % 16) + 1]>>

FormatBalanceHex(v) == <<"0", "x">> \o HexDigits(v)

\* format!("{}", balance): Display of an unsigned integer, base 10, no
\* leading zeros, "0" for zero.
RECURSIVE FormatBalance(_)
FormatBalance(v) ==
    IF v < 10 THEN <<DigitChars[v + 1]>>
    ELSE FormatBalance(v \div 10) \o <<DigitChars[(v % 10) + 1]>>

\* tests::balance: amount.to_string()
balance(amount) == FormatBalance(amount)

\* ------------------------------------------------------- request inputs
\* Length of the longest amount string fed to the parser on its own.
MaxAmountLen == 3

AmountAlphabet == {"0", "1", "2", "9", "a", "g", "x", "+", "-"}

RECURSIVE StringsUpTo(_)
StringsUpTo(n) ==
    IF n = 0 THEN {<< >>}
    ELSE LET shorter == StringsUpTo(n - 1)
         IN  shorter \cup {Append(s, ch) : s \in shorter, ch \in AmountAlphabet}

\* Signing strings a caller may send: the keyring SURIs and a malformed one.
SigningInputs == {key(a) : a \in Accounts} \cup {"not a suri"}

\* Address strings a caller may send: Bob's address (the destination of the
\* curl example and of test_transfer_balance), Alice's, and a malformed one.
AddressInputs == {pubkey(a) : a \in Accounts} \cup {"not-ss58"}

\* Amount strings a caller may send: tests::balance(10), the "0xa" of the
\* curl example in main.rs, and a malformed hexadecimal string.
AmountInputs == {balance(10), <<"0", "x", "a">>, <<"0", "x", "g">>}

\* Free balances the chain may report for an account.
BalanceSamples == {0, 10, MaxBalance}

\* ------------------------------------------------------- jsonrpc results
Pending == [kind |-> "pending", code |-> "", message |-> "", data |-> "", value |-> << >>]

\* Error::invalid_params_with_details(message, details)
invalid_params_with_details(message, details) ==
    [kind |-> "err", code |-> "InvalidParams", message |-> message,
     data |-> details, value |-> << >>]

\* Error::internal_error(): no data.
internal_error ==
    [kind |-> "err", code |-> "InternalError", message |-> "Internal error",
     data |-> "", value |-> << >>]

Ok(value) == [kind |-> "ok", code |-> "", message |-> "", data |-> "", value |-> value]

ExpectedSuri == "Expected a suri encoded private key."
ExpectedSs58 == "Expected a ss58 encoded public key."
ExpectedBalance == "Expected a hex encoded balance."

\* ------------------------------------------------------------ the state
VARIABLES
    pc,          \* pc[c]: where request c stands
    req,         \* req[c]: the method and the strings the caller sent
    call,        \* call[c]: the Balances::transfer call built by the handler
    xt,          \* xt[c]: the XtBuilder future of Client::xt
    result,      \* result[c]: what the returned future resolved to
    trace,       \* trace[c]: the chain-client methods the request invoked
    submitted,   \* the signed instructions handed to the chain client, in order
    chainNonce,  \* the chain's account nonce of every account
    codec        \* the amount codec exercised on its own

vars == <<pc, req, call, xt, result, trace, submitted, chainNonce, codec>>

NoRequest == [method |-> "", from |-> "", to |-> "", amount |-> << >>]
NoCall == [dest |-> "", value |-> 0]
NoXt == [state |-> "none", signer |-> "", nonce |-> 0]
CodecStart == [pc |-> "start", value |-> 0, text |-> << >>,
               parsed |-> [ok |-> FALSE, value |-> 0, err |-> ""]]

\* RpcImpl(client) right after main built it: no request in flight.
Init ==
    /\ pc = [c \in Calls |-> "idle"]
    /\ req = [c \in Calls |-> NoRequest]
    /\ call = [c \in Calls |-> NoCall]
    /\ xt = [c \in Calls |-> NoXt]
    /\ result = [c \in Calls |-> Pending]
    /\ trace = [c \in Calls |-> << >>]
    /\ submitted = << >>
    /\ chainNonce = [a \in Accounts |-> StartNonce]
    /\ codec = CodecStart

\* Exchange::extra for Runtime: the signed extra of a transaction.
extra(nonce) ==
    [genesis |-> "CheckGenesis", era |-> "Immortal", nonce |-> nonce,
     weight |-> "CheckWeight", fees |-> 0]

\* Mutant of TransferOutcome: Client::xt is called as soon as the pair is
\* known, before the destination and the amount are parsed.
TransferOutcomeEagerXt(from, to, amount) ==
    LET pair == PairFromString(from)
        public == PublicFromString(to)
        parsed == ParseBalance(amount)
    IN  IF ~pair.ok
        THEN [error |-> invalid_params_with_details(ExpectedSuri, "SecretStringError"),
              trace |-> << >>, signer |-> "", call |-> NoCall]
        ELSE IF ~public.ok
        THEN [error |-> invalid_params_with_details(ExpectedSs58, "PublicError"),
              trace |-> <<"xt">>, signer |-> "", call |-> NoCall]
        ELSE IF ~parsed.ok
        THEN [error |-> invalid_params_with_details(ExpectedBalance, parsed.err),
              trace |-> <<"xt">>, signer |-> "", call |-> NoCall]
        ELSE [error |-> Pending,
              trace |-> <<"xt", "metadata">>, signer |-> pair.pair,
              call |-> [dest |-> public.public, value |-> parsed.value]]

\* Mutant of TransferOutcome: the amount is parsed before the two keys.
TransferOutcomeAmountFirst(from, to, amount) ==
    LET pair == PairFromString(from)
        public == PublicFromString(to)
        parsed == ParseBalance(amount)
    IN  IF ~parsed.ok
        THEN [error |-> invalid_params_with_details(ExpectedBalance, parsed.err),
              trace |-> << >>, signer |-> "", call |-> NoCall]
        ELSE IF ~pair.ok
        THEN [error |-> invalid_params_with_details(ExpectedSuri, "SecretStringError"),
              trace |-> << >>, signer |-> "", call |-> NoCall]
        ELSE IF ~public.ok
        THEN [error |-> invalid_params_with_details(ExpectedSs58, "PublicError"),
              trace |-> << >>, signer |-> "", call |-> NoCall]
        ELSE [error |-> Pending,
              trace |-> <<"xt", "metadata">>, signer |-> pair.pair,
              call |-> [dest |-> public.public, value |-> parsed.value]]

\* ---------------------------------------------------------- the handlers
\* The synchronous body of transfer_balance: the three parses in source
\* order, each with an early return, then Client::xt, Call::transfer and
\* metadata().module("Balances").call(transfer).
TransferOutcome(from, to, amount) ==
    LET pair == PairFromString(from)
        public == PublicFromString(to)
        parsed == ParseBalance(amount)
    IN  IF ~pair.ok
        THEN [error |-> invalid_params_with_details(ExpectedSuri, "SecretStringError"),
              trace |-> << >>, signer |-> "", call |-> NoCall]
        ELSE IF ~public.ok
        THEN [error |-> invalid_params_with_details(ExpectedSs58, "PublicError"),
              trace |-> << >>, signer |-> "", call |-> NoCall]
        ELSE IF ~parsed.ok
        THEN [error |-> invalid_params_with_details(ExpectedBalance, parsed.err),
              trace |-> << >>, signer |-> "", call |-> NoCall]
        ELSE [error |-> Pending,
              trace |-> <<"xt", "metadata">>, signer |-> pair.pair,
              call |-> [dest |-> public.public, value |-> parsed.value]]

\* RpcImpl::transfer_balance up to the future it returns.
transfer_balance(c, from, to, amount) ==
    LET out == TransferOutcome(from, to, amount)
    IN  /\ pc[c] = "idle"
        /\ req' = [req EXCEPT ![c] = [method |-> "transfer_balance",
                                      from |-> from, to |-> to, amount |-> amount]]
        /\ trace' = [trace EXCEPT ![c] = out.trace]
        /\ call' = [call EXCEPT ![c] = out.call]
        /\ result' = [result EXCEPT ![c] = out.error]
        /\ IF out.error.kind = "err"
           THEN /\ pc' = [pc EXCEPT ![c] = "done"]
                /\ xt' = xt
           ELSE /\ pc' = [pc EXCEPT ![c] = "xt"]
                /\ xt' = [xt EXCEPT ![c] = [state |-> "pending", signer |-> out.signer,
                                            nonce |-> 0]]
        /\ UNCHANGED <<submitted, chainNonce, codec>>

\* Mutant of xt_resolve: the lookup waits on one process-wide lock that a
\* transfer holds from its lookup to the end of its submission.
xt_resolve_serialized(c, ok) ==
    /\ pc[c] = "xt"
    /\ \A d \in Calls \ {c} : pc[d] \notin {"and_then", "submit"}
    /\ xt' = [xt EXCEPT ![c] = IF ok
                               THEN [@ EXCEPT !.state = "ok",
                                              !.nonce = chainNonce[xt[c].signer]]
                               ELSE [@ EXCEPT !.state = "err"]]
    /\ pc' = [pc EXCEPT ![c] = "and_then"]
    /\ UNCHANGED <<req, call, result, trace, submitted, chainNonce, codec>>

\* Client::xt resolving: the client read the signer's account nonce from the
\* chain state, or the lookup failed.
xt_resolve(c, ok) ==
    /\ pc[c] = "xt"
    /\ xt' = [xt EXCEPT ![c] = IF ok
                               THEN [@ EXCEPT !.state = "ok",
                                              !.nonce = chainNonce[xt[c].signer]]
                               ELSE [@ EXCEPT !.state = "err"]]
    /\ pc' = [pc EXCEPT ![c] = "and_then"]
    /\ UNCHANGED <<req, call, result, trace, submitted, chainNonce, codec>>

\* The nonce a process-wide nonce cache would hold for a signer: one past
\* the highest nonce handed over for it, or the looked-up nonce.
CachedNonce(signer, looked_up) ==
    LET used == {submitted[i].extra.nonce + 1 :
                    i \in {k \in DOMAIN submitted : submitted[k].from = signer}}
                \cup {looked_up}
    IN  CHOOSE n \in used : \A m \in used : m <= n

\* Mutant of and_then_submit: the instruction is signed with the cached
\* nonce instead of the nonce the lookup of this request returned.
and_then_submit_cached(c) ==
    /\ pc[c] = "and_then"
    /\ IF xt[c].state = "ok"
       THEN /\ submitted' = Append(submitted,
                                   [id |-> c, from |-> xt[c].signer,
                                    dest |-> call[c].dest, value |-> call[c].value,
                                    extra |-> extra(CachedNonce(xt[c].signer, xt[c].nonce)),
                                    observed |-> FALSE, included |-> FALSE])
            /\ trace' = [trace EXCEPT ![c] = Append(@, "submit")]
            /\ pc' = [pc EXCEPT ![c] = "submit"]
            /\ result' = result
       ELSE /\ result' = [result EXCEPT ![c] = internal_error]
            /\ pc' = [pc EXCEPT ![c] = "done"]
            /\ UNCHANGED <<submitted, trace>>
    /\ UNCHANGED <<req, call, xt, chainNonce, codec>>

\* xt.and_then(|xt| xt.submit(call)): with a builder, sign the call with
\* T::extra(nonce) and hand it to the client; with an error, skip the closure
\* and resolve through map_err.
and_then_submit(c) ==
    /\ pc[c] = "and_then"
    /\ IF xt[c].state = "ok"
       THEN /\ submitted' = Append(submitted,
                                   [id |-> c, from |-> xt[c].signer,
                                    dest |-> call[c].dest, value |-> call[c].value,
                                    extra |-> extra(xt[c].nonce),
                                    observed |-> FALSE, included |-> FALSE])
            /\ trace' = [trace EXCEPT ![c] = Append(@, "submit")]
            /\ pc' = [pc EXCEPT ![c] = "submit"]
            /\ result' = result
       ELSE /\ result' = [result EXCEPT ![c] = internal_error]
            /\ pc' = [pc EXCEPT ![c] = "done"]
            /\ UNCHANGED <<submitted, trace>>
    /\ UNCHANGED <<req, call, xt, chainNonce, codec>>

\* The position in submitted of the instruction of request c.
Instruction(c) == CHOOSE i \in DOMAIN submitted : submitted[i].id = c

\* Mutant of submit_resolve: a failed submission is submitted again.
submit_resolve_retry(c, ok) ==
    /\ pc[c] = "submit"
    /\ submitted' = [submitted EXCEPT ![Instruction(c)].observed = ok]
    /\ result' = [result EXCEPT ![c] = IF ok THEN Ok(<< >>) ELSE Pending]
    /\ pc' = [pc EXCEPT ![c] = IF ok THEN "done" ELSE "and_then"]
    /\ UNCHANGED <<req, call, xt, trace, chainNonce, codec>>

\* The submit future resolving: the chain took the instruction and returned
\* its hash (map logs it), or the submission failed (map_err logs the error
\* and returns Error::internal_error()).
submit_resolve(c, ok) ==
    /\ pc[c] = "submit"
    /\ submitted' = [submitted EXCEPT ![Instruction(c)].observed = ok]
    /\ result' = [result EXCEPT ![c] = IF ok THEN Ok(<< >>) ELSE internal_error]
    /\ pc' = [pc EXCEPT ![c] = "done"]
    /\ UNCHANGED <<req, call, xt, trace, chainNonce, codec>>

\* RpcImpl::account_balance up to the future it returns.
account_balance(c, of) ==
    LET public == PublicFromString(of)
    IN  /\ pc[c] = "idle"
        /\ req' = [req EXCEPT ![c] = [method |-> "account_balance",
                                      from |-> of, to |-> "", amount |-> << >>]]
        /\ IF ~public.ok
           THEN /\ result' = [result EXCEPT ![c] =
                                invalid_params_with_details(ExpectedSs58, "PublicError")]
                /\ pc' = [pc EXCEPT ![c] = "done"]
                /\ trace' = [trace EXCEPT ![c] = << >>]
           ELSE /\ result' = [result EXCEPT ![c] = Pending]
                /\ pc' = [pc EXCEPT ![c] = "fetch"]
                /\ trace' = [trace EXCEPT ![c] = <<"metadata", "fetch_or_default">>]
        /\ UNCHANGED <<call, xt, submitted, chainNonce, codec>>

\* fetch_or_default resolving: map renders the balance, map_err logs the
\* error and returns Error::internal_error().
fetch_resolve(c, ok, free) ==
    /\ pc[c] = "fetch"
    /\ result' = [result EXCEPT ![c] = IF ok THEN Ok(FormatBalance(free))
                                       ELSE internal_error]
    /\ pc' = [pc EXCEPT ![c] = "done"]
    /\ UNCHANGED <<req, call, xt, trace, submitted, chainNonce, codec>>

\* The chain includes an instruction it observed: srml_system::CheckNonce
\* admits it only when it carries the account's current nonce, and the
\* account's nonce advances by one.
chain_include(i) ==
    /\ submitted[i].observed
    /\ ~submitted[i].included
    /\ submitted[i].extra.nonce = chainNonce[submitted[i].from]
    /\ chainNonce' = [chainNonce EXCEPT ![submitted[i].from] = @ + 1]
    /\ submitted' = [submitted EXCEPT ![i].included = TRUE]
    /\ UNCHANGED <<pc, req, call, xt, result, trace, codec>>

Next ==
    \/ \E c \in Calls, from \in SigningInputs, to \in AddressInputs,
          amount \in AmountInputs : transfer_balance(c, from, to, amount)
    \/ \E c \in Calls, ok \in BOOLEAN : xt_resolve(c, ok)
    \/ \E c \in Calls : and_then_submit(c)
    \/ \E c \in Calls, ok \in BOOLEAN : submit_resolve(c, ok)
    \/ \E c \in Calls, of \in AddressInputs : account_balance(c, of)
    \/ \E c \in Calls, ok \in BOOLEAN, free \in BalanceSamples : fetch_resolve(c, ok, free)
    \/ \E i \in DOMAIN submitted : chain_include(i)

Spec == Init /\ [][Next]_vars

\* ------------------------------------------------- the codec on its own
\* account_balance's map closure applied to a balance the chain returned.
render(v) ==
    /\ codec.pc = "start"
    /\ codec' = [codec EXCEPT !.pc = "rendered", !.value = v, !.text = FormatBalance(v)]
    /\ UNCHANGED <<pc, req, call, xt, result, trace, submitted, chainNonce>>

\* transfer_balance's amount.parse() applied to the rendered string.
parse_back ==
    /\ codec.pc = "rendered"
    /\ codec' = [codec EXCEPT !.pc = "parsed", !.parsed = ParseBalance(codec.text)]
    /\ UNCHANGED <<pc, req, call, xt, result, trace, submitted, chainNonce>>

\* transfer_balance's amount.parse() applied to a string of the caller.
parse_text(s) ==
    /\ codec.pc = "start"
    /\ codec' = [codec EXCEPT !.pc = "parsed_text", !.text = s, !.parsed = ParseBalance(s)]
    /\ UNCHANGED <<pc, req, call, xt, result, trace, submitted, chainNonce>>

CodecNext ==
    \/ \E v \in 0..MaxBalance : render(v)
    \/ parse_back
    \/ \E s \in StringsUpTo(MaxAmountLen) : parse_text(s)

SpecCodec == Init /\ [][CodecNext]_vars

\* ============================================================ properties
\* The nonce an instruction carries.
NonceOf(i) == submitted[i].extra.nonce

\* The instructions request c handed to the chain client.
InstructionsOf(c) == {i \in DOMAIN submitted : submitted[i].id = c}

\* Instructions i < j of one signing identity with none of that identity
\* handed over between them.
Successive(i, j) ==
    /\ i < j
    /\ submitted[i].from = submitted[j].from
    /\ \A k \in DOMAIN submitted :
          (i < k /\ k < j) => submitted[k].from # submitted[i].from

\* The caller's strings, judged one by one.
SigningOk(c) == PairFromString(req[c].from).ok
DestinationOk(c) == PublicFromString(req[c].to).ok
AmountOk(c) == ParseBalance(req[c].amount).ok
IsTransfer(c) == req[c].method = "transfer_balance"
IsBalanceQuery(c) == req[c].method = "account_balance"

\* C1: two transfers of one signing identity that are in flight together,
\* both handed to the chain client, carry different nonces.
C1_ConcurrentNoncesDistinct ==
    \A c, d \in Calls :
        (/\ c # d
         /\ pc[c] = "submit"
         /\ pc[d] = "submit"
         /\ xt[c].signer = xt[d].signer)
        => NonceOf(Instruction(c)) # NonceOf(Instruction(d))

\* C2: for one signing identity, an instruction handed over after one the
\* chain observed carries the nonce of its predecessor plus one: no repeat
\* and no gap, whether or not the predecessor has been included.
C2_NoncesIncreaseByOne ==
    \A i, j \in DOMAIN submitted :
        (Successive(i, j) /\ submitted[i].observed)
        => NonceOf(j) = NonceOf(i) + 1

\* C3: once an instruction with nonce N of address A is handed to the chain
\* client, the next nonce a submission of A would use is at least N + 1,
\* before the outcome is known and whatever the outcome is.
C3_NonceAdvancedAtHandOver ==
    \A i \in DOMAIN submitted :
        chainNonce[submitted[i].from] >= NonceOf(i) + 1

\* C4: a request with a malformed input completes with invalid-params and
\* has made no call to the chain client: no nonce lookup, no metadata or
\* storage read, no signing, no submit.
C4_ValidationBeforeClient ==
    \A c \in Calls :
        (\/ IsBalanceQuery(c) /\ ~PublicFromString(req[c].from).ok
         \/ IsTransfer(c) /\ ~(SigningOk(c) /\ DestinationOk(c) /\ AmountOk(c)))
        => /\ pc[c] = "done"
           /\ result[c].code = "InvalidParams"
           /\ trace[c] = << >>
           /\ xt[c] = NoXt
           /\ InstructionsOf(c) = {}

C4_Witness ==
    \E c, d \in Calls :
        /\ IsBalanceQuery(c) /\ ~PublicFromString(req[c].from).ok /\ pc[c] = "done"
        /\ IsTransfer(d) /\ SigningOk(d) /\ DestinationOk(d) /\ ~AmountOk(d)
        /\ pc[d] = "done"

\* C5: a transfer makes at most one submit call, and one whose nonce lookup
\* or submission failed ends with the internal error without detail; once
\* it has ended nothing more happens for it.
C5_FailureReportedOnceNoResubmit ==
    \A c \in Calls :
        /\ Cardinality(InstructionsOf(c)) <= 1
        /\ Len(SelectSeq(trace[c], LAMBDA m : m = "submit")) <= 1
        /\ (/\ pc[c] = "done"
            /\ \/ xt[c].state = "err"
               \/ \E i \in InstructionsOf(c) : ~submitted[i].observed)
           => /\ result[c] = internal_error
              /\ result[c].data = ""
        /\ pc[c] = "done"
           => /\ ~ENABLED and_then_submit(c)
              /\ \A ok \in BOOLEAN : ~ENABLED xt_resolve(c, ok)
              /\ \A ok \in BOOLEAN : ~ENABLED submit_resolve(c, ok)

C5_Witness ==
    \E c, d \in Calls :
        /\ pc[c] = "done" /\ xt[c].state = "err" /\ result[c] = internal_error
        /\ pc[d] = "done" /\ InstructionsOf(d) # {}
        /\ ~submitted[Instruction(d)].observed /\ result[d] = internal_error

\* C6: while a transfer of one address waits on the chain client, a transfer
\* of another address can take each of its own steps.
C6_DistinctSignersIndependent ==
    \A c, d \in Calls :
        (/\ c # d
         /\ pc[d] \in {"xt", "submit"}
         /\ pc[c] \in {"xt", "and_then", "submit"}
         /\ xt[c].signer # xt[d].signer)
        => /\ pc[c] = "xt" => \A ok \in BOOLEAN : ENABLED xt_resolve(c, ok)
           /\ pc[c] = "and_then" => ENABLED and_then_submit(c)
           /\ pc[c] = "submit" => \A ok \in BOOLEAN : ENABLED submit_resolve(c, ok)

C6_Witness ==
    \E c, d \in Calls :
        /\ pc[d] = "submit" /\ xt[d].signer = Alice
        /\ pc[c] = "xt" /\ xt[c].signer = Bob

\* C7: a transfer with a valid signing string, a valid destination and the
\* amount "0xa" passes validation and transfers 10.
C7_HexAmountAccepted ==
    \A c \in Calls :
        (/\ IsTransfer(c) /\ SigningOk(c) /\ DestinationOk(c)
         /\ req[c].amount = <<"0", "x", "a">>)
        => /\ result[c].code # "InvalidParams"
           /\ call[c].value = 10

\* C8: the string account_balance renders for a balance is a decimal string
\* that transfer_balance's amount parser accepts and maps back to the
\* balance.
C8_RenderedBalanceRoundTrips ==
    /\ codec.pc \in {"rendered", "parsed"}
       => /\ codec.text # << >>
          /\ \A k \in DOMAIN codec.text : IsDigit(codec.text[k])
    /\ codec.pc = "parsed"
       => /\ codec.parsed.ok
          /\ codec.parsed.value = codec.value

C8_Witness ==
    /\ codec.pc = "parsed"
    /\ codec.value = MaxBalance
    /\ Len(codec.text) > 1

\* C9: the invalid-params error of a transfer names the first invalid input
\* in the order signing string, destination address, amount, and the three
\* messages differ.
C9_FirstInvalidInputNamed ==
    /\ Cardinality({ExpectedSuri, ExpectedSs58, ExpectedBalance}) = 3
    /\ \A c \in Calls :
          IsTransfer(c)
          => IF ~SigningOk(c)
             THEN result[c].code = "InvalidParams" /\ result[c].message = ExpectedSuri
             ELSE IF ~DestinationOk(c)
             THEN result[c].code = "InvalidParams" /\ result[c].message = ExpectedSs58
             ELSE IF ~AmountOk(c)
             THEN result[c].code = "InvalidParams" /\ result[c].message = ExpectedBalance
             ELSE result[c].code # "InvalidParams"

C9_Witness ==
    \E c, d \in Calls :
        /\ IsTransfer(c) /\ SigningOk(c) /\ DestinationOk(c)
        /\ req[c].amount = <<"0", "x", "g">>
        /\ result[c].message = ExpectedBalance
        /\ IsTransfer(d) /\ ~SigningOk(d) /\ ~DestinationOk(d) /\ ~AmountOk(d)
        /\ result[d].message = ExpectedSuri

\* C10: the instruction of a transfer carries the nonce the lookup of that
\* same request returned, which is never ahead of the chain's account nonce;
\* the lookup precedes the submit, and a failed lookup submits nothing.
C10_NonceComesFromLookup ==
    \A c \in Calls :
        /\ \A i \in InstructionsOf(c) :
              /\ xt[c].state = "ok"
              /\ NonceOf(i) = xt[c].nonce
              /\ NonceOf(i) <= chainNonce[submitted[i].from]
              /\ trace[c] = <<"xt", "metadata", "submit">>
        /\ xt[c].state = "err" => InstructionsOf(c) = {}
        /\ pc[c] = "submit" => InstructionsOf(c) # {}

C10_Witness ==
    \E c, d \in Calls :
        /\ c # d
        /\ InstructionsOf(c) # {} /\ InstructionsOf(d) # {}
        /\ submitted[Instruction(c)].from = submitted[Instruction(d)].from
        /\ Instruction(c) < Instruction(d)
        /\ submitted[Instruction(c)].included
        /\ NonceOf(Instruction(d)) = StartNonce + 1

====
